---- MODULE Spec2Model ----
(***************************************************************************)
(* Model of the grid tiling backend (src/backend/app.py): the identifier   *)
(* scheme, the local metric projection, the row/column walk of             *)
(* grid_tiles_for_boundary, and the HTTP handlers that read and write the  *)
(* boundary and tiles tables.                                              *)
(*                                                                         *)
(* Numbers.  The code computes in floating point; the model computes       *)
(* exactly, in fixed point.  A geographic coordinate is an integer number  *)
(* of ticks, TicksPerDeg ticks to the degree (half a metre of latitude).   *)
(* A metric coordinate is held in metre-ticks (metres * TicksPerDeg), so   *)
(* that (lon - lon0) * m_per_deg_lon needs no division.  The cosine of the *)
(* reference latitude is tabulated at the two latitudes where twice the    *)
(* cosine is an integer (0 and 60 degrees); the boundaries of the model    *)
(* have their centroid on one of the two.                                  *)
(*                                                                         *)
(* Strings are sequences of code points: "A1" is <<65, 49>>.               *)
(***************************************************************************)
EXTENDS Integers, Sequences, FiniteSets, TLC

VARIABLES
  boundary,   \* the boundary table: the stored multi-polygons, oldest first
  tiles,      \* the committed rows of the tiles table
  tilesSeq,   \* the next value of the tiles.id SERIAL sequence
  gen,        \* the generate_tiles request in progress (its locals)
  work,       \* the tiles table as the open generate transaction sees it
  genPre,     \* history: the committed tiles when the running request began
  last,       \* history: the latest successful generation
  nReq,       \* number of upload and generate requests so far
  resp,       \* the response produced by the latest step (NoResp if none)
  idq         \* the identifier probe of SpecId

vars == <<boundary, tiles, tilesSeq, gen, work, genPre, last, nReq, resp, idq>>

----------------------------------------------------------------------------
(* Bounds of the model *)

\* upload and generate requests in one behaviour
MaxRequests == 3
\* the tile sizes asked for are -1 .. MaxTile metres
MaxTile == 2
\* passes of the inner loop of one row that are followed (a walk with
\* tile_m <= 0 never leaves its first row; no other walk has as many columns)
MaxWalk == 6
\* the identifier scheme is probed on columns 0 .. MaxCol, rows 0 .. MaxRow
MaxCol == 30
MaxRow == 10

(* Program constants *)

Base26 == 26
OrdA == 65
OrdZero == 48
Radix == 10
MPerDegLat == 111320
Placeholders == 1

TicksPerDeg == 2 * MPerDegLat
Lat60 == 60 * TicksPerDeg

----------------------------------------------------------------------------
(* Cell identifier scheme *)

\* the while loop of col_letters, entered with idx already incremented
RECURSIVE col_letters_loop(_, _)
col_letters_loop(idx, s) ==
  IF idx = 0 THEN s
  ELSE LET q == (idx - 1) \div Base26
           r == (idx - 1) % Base26
       IN col_letters_loop(q, <<OrdA + r>> \o s)

\* a col_letters whose loop overwrites s instead of prepending to it
RECURSIVE col_letters_loop_overwrite(_, _)
col_letters_loop_overwrite(idx, s) ==
  IF idx = 0 THEN s
  ELSE LET q == (idx - 1) \div Base26
           r == (idx - 1) % Base26
       IN col_letters_loop_overwrite(q, <<OrdA + r>>)

col_letters_overwrite(idx) == col_letters_loop_overwrite(idx + 1, <<>>)

col_letters(idx) == col_letters_loop(idx + 1, <<>>)

\* Python's str() of a non-negative integer
RECURSIVE str(_)
str(n) ==
  IF n < Radix THEN <<OrdZero + n>>
  ELSE str(n \div Radix) \o <<OrdZero + (n % Radix)>>

\* f"{col_letters(col)}{row+1}"
identifier(col, row) == col_letters(col) \o str(row + 1)

----------------------------------------------------------------------------
(* Geometry.  A point is <<lon, lat>>.  A boundary multi-polygon is a set  *)
(* of member polygons, each an axis-aligned rectangle                      *)
(* [minx, miny, maxx, maxy]; a cell polygon is its closed 5-vertex ring.   *)

Min2(a, b) == IF a < b THEN a ELSE b
Max2(a, b) == IF a > b THEN a ELSE b

RECURSIVE SetMin(_)
SetMin(S) ==
  LET e == CHOOSE v \in S : TRUE
  IN IF S = {e} THEN e ELSE Min2(e, SetMin(S \ {e}))

RECURSIVE SetMax(_)
SetMax(S) ==
  LET e == CHOOSE v \in S : TRUE
  IN IF S = {e} THEN e ELSE Max2(e, SetMax(S \ {e}))

\* mp.bounds
Bounds(mp) ==
  << SetMin({r.minx : r \in mp}), SetMin({r.miny : r \in mp}),
     SetMax({r.maxx : r \in mp}), SetMax({r.maxy : r \in mp}) >>

Area(r) == (r.maxx - r.minx) * (r.maxy - r.miny)

RECURSIVE SumOver(_, _, _, _)
\* sum over r in S of Area(r) * (twice r's centre on the axis - 2 * ref)
SumOver(S, axis, ref, areaOnly) ==
  IF S = {} THEN 0
  ELSE LET r == CHOOSE v \in S : TRUE
           c2 == IF axis = 1 THEN r.minx + r.maxx ELSE r.miny + r.maxy
           term == IF areaOnly THEN Area(r) ELSE Area(r) * (c2 - 2 * ref)
       IN term + SumOver(S \ {r}, axis, ref, areaOnly)

\* mp.centroid: the area-weighted mean of the members' centres
Centroid(mp) ==
  LET b == Bounds(mp)
      a == SumOver(mp, 1, 0, TRUE)
  IN << b[1] + SumOver(mp, 1, b[1], FALSE) \div (2 * a),
        b[2] + SumOver(mp, 2, b[2], FALSE) \div (2 * a) >>

\* twice math.cos(math.radians(lat_deg)), where that is an integer
CosTimes2(lat) ==
  CASE lat = 0 -> 2
    [] lat = Lat60 -> 1
    [] lat = -Lat60 -> 1

\* <<m_per_deg_lon, m_per_deg_lat>>
meters_per_deg(lat) == << (MPerDegLat * CosTimes2(lat)) \div 2, MPerDegLat >>

\* metres to metre-ticks
Metres(m) == m * TicksPerDeg

ll_to_xy(p, c0, m) == << (p[1] - c0[1]) * m[1], (p[2] - c0[2]) * m[2] >>

xy_to_ll(q, c0, m) == << c0[1] + q[1] \div m[1], c0[2] + q[2] \div m[2] >>

\* the extent of a cell's ring, whose vertices 1 and 3 are opposite corners
RingBounds(ring) ==
  << Min2(ring[1][1], ring[3][1]), Min2(ring[1][2], ring[3][2]),
     Max2(ring[1][1], ring[3][1]), Max2(ring[1][2], ring[3][2]) >>

\* mp.intersects(poly_ll): some member shares a point with the closed square
Intersects(mp, ring) ==
  LET b == RingBounds(ring)
  IN \E r \in mp : /\ b[1] <= r.maxx /\ r.minx <= b[3]
                   /\ b[2] <= r.maxy /\ r.miny <= b[4]

\* poly_ll.centroid of a rectangle's ring
PolyCentroid(ring) ==
  LET b == RingBounds(ring)
  IN << (b[1] + b[3]) \div 2, (b[2] + b[4]) \div 2 >>

\* ST_Contains(geom, point): the point is in the polygon's interior
ST_Contains(ring, p) ==
  LET b == RingBounds(ring)
  IN b[1] < p[1] /\ p[1] < b[3] /\ b[2] < p[2] /\ p[2] < b[4]

----------------------------------------------------------------------------
(* Inputs: the boundaries a client uploads (GeoJSON geometries), the tile  *)
(* sizes it asks for, and the points and identifiers it queries.           *)

Rect(a, b, c, d) == [minx |-> a, miny |-> b, maxx |-> c, maxy |-> d]

\* a 2 m x 2 m square on the equator, as a Polygon
Sq2 == [type |-> "Polygon", members |-> {Rect(-2, -2, 2, 2)}]
\* a 2 m x 2 m square at 60 degrees north (a metre of longitude is 4 ticks)
Sq60 == [type |-> "Polygon", members |-> {Rect(-4, Lat60 - 2, 4, Lat60 + 2)}]
\* two islands in a strip 6 m x 1 m, 3 m apart; the centroid <<5, 0>> is
\* off the centre of the bounding box
Strip == [type |-> "MultiPolygon",
          members |-> {Rect(0, -1, 4, 1), Rect(10, -1, 12, 1)}]

\* two 1 m x 1 m squares on a diagonal, 1 m apart
Diag == [type |-> "MultiPolygon",
         members |-> {Rect(-3, -3, -1, -1), Rect(1, 1, 3, 3)}]
\* a geometry that is no (Multi)Polygon
Pt == [type |-> "Point", members |-> {}]

GeoInputs == {Sq2, Sq60, Strip, Diag, Pt}

TileSizes == (-1)..MaxTile

ProbePoints == {<<0, 0>>, <<50, 50>>}

ProbeIds == {<<OrdA + 25>>}

----------------------------------------------------------------------------
(* The tables *)

\* to_multipolygon: the members of a MultiPolygon, or the one of a Polygon;
\* any other geometry raises ValueError
IsPolygonal(g) == g.type \in {"Polygon", "MultiPolygon"}
to_multipolygon(g) == g.members

\* fetch_boundary_geojson: the row with the greatest id, or None
NoBoundary == {}
fetch_boundary_geojson(tbl) ==
  IF Len(tbl) = 0 THEN NoBoundary ELSE tbl[Len(tbl)]

\* INSERT INTO tiles ... with no ON CONFLICT clause
InsertRow(rows, seq, t) ==
  rows \cup {[id |-> seq, tile_id |-> t.tile_id,
              geom |-> t.polygon, centroid |-> t.centroid]}

\* INSERT INTO tiles ... ON CONFLICT (tile_id) DO UPDATE SET geom, centroid
UpsertRow(rows, seq, t) ==
  IF \E r \in rows : r.tile_id = t.tile_id
  THEN {IF r.tile_id = t.tile_id
        THEN [r EXCEPT !.geom = t.polygon, !.centroid = t.centroid]
        ELSE r : r \in rows}
  ELSE rows \cup {[id |-> seq, tile_id |-> t.tile_id,
                   geom |-> t.polygon, centroid |-> t.centroid]}

\* what another connection reads while a transaction is open, were the
\* writer's connection in autocommit mode
OthersSeeAutocommit(committed, uncommitted) == uncommitted

\* what another connection reads while a transaction is open: psycopg2
\* connections are not autocommit, and PostgreSQL reads committed rows only
OthersSee(committed, uncommitted) == committed

\* leaving the connection's with-block by an exception, were it to commit
AbortResultCommit(committed, uncommitted) == uncommitted

\* leaving the connection's with-block by an exception rolls back
AbortResult(committed, uncommitted) == committed

\* a loop test that stops one step early
LoopTestEarly(v, v1, t) == v + t < v1

\* a loop test that lets the far edge in
LoopTestInclusive(v, v1, t) == v <= v1

\* while y < y1 / while x < x1
LoopTest(v, v1, t) == v < v1

----------------------------------------------------------------------------
(* State *)

NoResp == [op |-> "none", status |-> 0, arg |-> <<>>, val |-> <<>>, aux |-> {}]

Response(op, status, arg, val, aux) ==
  [op |-> op, status |-> status, arg |-> arg, val |-> val, aux |-> aux]

Idle ==
  [pc |-> "idle", tile_m |-> 1, mp |-> {}, c0 |-> <<0, 0>>, m |-> <<1, 1>>,
   x0 |-> 0, y0 |-> 0, x1 |-> 0, y1 |-> 0,
   x |-> 0, y |-> 0, col |-> 0, row |-> 0, out |-> <<>>, idx |-> 1]

NoGeneration == [n |-> 0, mp |-> {}, tile_m |-> 0, out |-> {}]

NoProbe == [phase |-> 0, a |-> <<0, 0>>, b |-> <<0, 0>>, ida |-> <<>>, idb |-> <<>>]

Init ==
  /\ boundary = <<>>
  /\ tiles = {}
  /\ tilesSeq = 1
  /\ gen = Idle
  /\ work = {}
  /\ genPre = {}
  /\ last = NoGeneration
  /\ nReq = 0
  /\ resp = NoResp
  /\ idq = NoProbe

----------------------------------------------------------------------------
(* POST /api/boundary/geojson *)

upload_boundary(g) ==
  /\ nReq < MaxRequests
  /\ nReq' = nReq + 1
  /\ IF IsPolygonal(g)
     THEN /\ boundary' = Append(boundary, to_multipolygon(g))
          /\ resp' = Response("upload", 200, <<>>, <<>>, {})
     ELSE /\ boundary' = boundary
          /\ resp' = Response("upload", 500, <<>>, <<>>, {})
  /\ UNCHANGED <<tiles, tilesSeq, gen, work, genPre, last, idq>>

----------------------------------------------------------------------------
(* POST /api/tiles/generate *)

\* the locals of grid_tiles_for_boundary before its loops
WalkStart(mp, tile_m) ==
  LET c0 == Centroid(mp)
      m == meters_per_deg(c0[2])
      b == Bounds(mp)
      a == ll_to_xy(<<b[1], b[2]>>, c0, m)
      z == ll_to_xy(<<b[3], b[4]>>, c0, m)
  IN [pc |-> "walk", tile_m |-> tile_m, mp |-> mp, c0 |-> c0, m |-> m,
      x0 |-> Min2(a[1], z[1]), y0 |-> Min2(a[2], z[2]),
      x1 |-> Max2(a[1], z[1]), y1 |-> Max2(a[2], z[2]),
      x |-> Min2(a[1], z[1]), y |-> Min2(a[2], z[2]),
      col |-> 0, row |-> 0, out |-> <<>>, idx |-> 1]

\* the cell of one pass of the inner loop: its ring and, if it meets the
\* boundary, its tile
square_ll(g) ==
  LET t == Metres(g.tile_m)
      square_xy == << <<g.x, g.y>>, <<g.x + t, g.y>>, <<g.x + t, g.y + t>>,
                      <<g.x, g.y + t>>, <<g.x, g.y>> >>
  IN [i \in 1..5 |-> xy_to_ll(square_xy[i], g.c0, g.m)]

Tile(g) ==
  LET poly_ll == square_ll(g)
  IN [tile_id |-> identifier(g.col, g.row),
      polygon |-> poly_ll,
      centroid |-> PolyCentroid(poly_ll)]

\* the handler up to the loops: no boundary is a 400
GenStart(tile_m) ==
  /\ gen.pc = "idle"
  /\ nReq < MaxRequests
  /\ nReq' = nReq + 1
  /\ genPre' = tiles
  /\ LET bnd == fetch_boundary_geojson(boundary)
     IN IF bnd = NoBoundary
        THEN /\ resp' = Response("generate", 400, tile_m, 0, {})
             /\ gen' = Idle
        ELSE /\ resp' = NoResp
             /\ gen' = WalkStart(bnd, tile_m)
  /\ UNCHANGED <<boundary, tiles, tilesSeq, work, last, idq>>

\* one pass of the inner loop
WalkCell ==
  /\ gen.pc = "walk"
  /\ LoopTest(gen.y, gen.y1, Metres(gen.tile_m))
  /\ LoopTest(gen.x, gen.x1, Metres(gen.tile_m))
  /\ gen.col < MaxWalk
  /\ gen' = [gen EXCEPT
       !.out = IF Intersects(gen.mp, square_ll(gen))
               THEN Append(gen.out, Tile(gen)) ELSE gen.out,
       !.x = gen.x + Metres(gen.tile_m),
       !.col = gen.col + 1]
  /\ resp' = NoResp
  /\ UNCHANGED <<boundary, tiles, tilesSeq, work, genPre, last, nReq, idq>>

\* the inner loop ends: the next row
WalkRow ==
  /\ gen.pc = "walk"
  /\ LoopTest(gen.y, gen.y1, Metres(gen.tile_m))
  /\ ~LoopTest(gen.x, gen.x1, Metres(gen.tile_m))
  /\ gen' = [gen EXCEPT
       !.y = gen.y + Metres(gen.tile_m),
       !.row = gen.row + 1,
       !.x = gen.x0,
       !.col = 0]
  /\ resp' = NoResp
  /\ UNCHANGED <<boundary, tiles, tilesSeq, work, genPre, last, nReq, idq>>

\* the outer loop ends: the connection of the upserts is opened
WalkDone ==
  /\ gen.pc = "walk"
  /\ ~LoopTest(gen.y, gen.y1, Metres(gen.tile_m))
  /\ gen' = [gen EXCEPT !.pc = "store", !.idx = 1]
  /\ work' = tiles
  /\ resp' = NoResp
  /\ UNCHANGED <<boundary, tiles, tilesSeq, genPre, last, nReq, idq>>

\* one pass of the loop over the tiles: an upsert inside the transaction
GenUpsert ==
  /\ gen.pc = "store"
  /\ gen.idx <= Len(gen.out)
  /\ work' = UpsertRow(work, tilesSeq, gen.out[gen.idx])
  /\ tilesSeq' = tilesSeq + 1
  /\ gen' = [gen EXCEPT !.idx = gen.idx + 1]
  /\ resp' = NoResp
  /\ UNCHANGED <<boundary, tiles, genPre, last, nReq, idq>>

\* conn.commit() after the loop, and the response
GenCommit ==
  /\ gen.pc = "store"
  /\ gen.idx > Len(gen.out)
  /\ tiles' = work
  /\ last' = [n |-> IF last.mp = gen.mp /\ last.tile_m = gen.tile_m
                     THEN last.n + 1 ELSE 1,
              mp |-> gen.mp, tile_m |-> gen.tile_m,
              out |-> {gen.out[i] : i \in 1..Len(gen.out)}]
  /\ resp' = Response("generate", 200, gen.tile_m, Len(gen.out), {})
  /\ gen' = Idle
  /\ work' = {}
  /\ UNCHANGED <<boundary, tilesSeq, genPre, nReq, idq>>

\* an upsert or the commit raises: the with-block is left by the exception
GenFail ==
  /\ gen.pc = "store"
  /\ tiles' = AbortResult(tiles, work)
  /\ resp' = Response("generate", 500, gen.tile_m, gen.idx - 1, {})
  /\ gen' = Idle
  /\ work' = {}
  /\ UNCHANGED <<boundary, tilesSeq, genPre, last, nReq, idq>>

----------------------------------------------------------------------------
(* The readers *)

\* the rows a statement of another connection runs against
ReaderView ==
  IF gen.pc = "store" THEN OthersSee(tiles, work) ELSE tiles

\* GET /api/tiles/locate: fetchone() of a SELECT with no ORDER BY
coord_to_tile(p) ==
  /\ LET view == ReaderView
         hits == {r \in view : ST_Contains(r.geom, p)}
     IN IF hits = {}
        THEN resp' = Response("locate", 404, p, <<>>, view)
        ELSE \E r \in hits : resp' = Response("locate", 200, p, r.tile_id, view)
  /\ UNCHANGED <<boundary, tiles, tilesSeq, gen, work, genPre, last, nReq, idq>>

\* GET /api/tiles/centroid: execute(sql, (tile_id)) passes the string itself
\* as the sequence of parameters, one parameter per character
tile_to_coord(tile_id) ==
  /\ LET view == ReaderView
         params == tile_id
     IN IF Len(params) # Placeholders
        THEN resp' = Response("centroid", 500, tile_id, <<>>, {})
        ELSE LET rows == {r \in view : r.tile_id = <<params[1]>>}
             IN IF rows = {}
                THEN resp' = Response("centroid", 404, tile_id, <<>>, {})
                ELSE \E r \in rows :
                       resp' = Response("centroid", 200, tile_id, r.centroid, {})
  /\ UNCHANGED <<boundary, tiles, tilesSeq, gen, work, genPre, last, nReq, idq>>

LocatePoints == {r.centroid : r \in ReaderView} \cup ProbePoints

CentroidIds == {r.tile_id : r \in ReaderView} \cup ProbeIds

----------------------------------------------------------------------------

Next ==
  \/ \E g \in GeoInputs : upload_boundary(g)
  \/ \E t \in TileSizes : GenStart(t)
  \/ WalkCell
  \/ WalkRow
  \/ WalkDone
  \/ GenUpsert
  \/ GenCommit
  \/ GenFail
  \/ \E p \in LocatePoints : coord_to_tile(p)
  \/ \E id \in CentroidIds : tile_to_coord(id)

Spec == Init /\ [][Next]_vars

----------------------------------------------------------------------------
(* The identifier scheme on its own: two (col, row) pairs are drawn and     *)
(* identifier is applied to each.                                          *)

WideCols == {Base26 * (Base26 + 1) - 1, Base26 * (Base26 + 1)}

IdPairs == ((0..MaxCol) \cup WideCols) \X (0..MaxRow)

IdFirst(a) ==
  /\ idq.phase = 0
  /\ idq' = [idq EXCEPT !.phase = 1, !.a = a, !.ida = identifier(a[1], a[2])]
  /\ UNCHANGED <<boundary, tiles, tilesSeq, gen, work, genPre, last, nReq, resp>>

IdSecond(b) ==
  /\ idq.phase = 1
  /\ idq' = [idq EXCEPT !.phase = 2, !.b = b, !.idb = identifier(b[1], b[2])]
  /\ UNCHANGED <<boundary, tiles, tilesSeq, gen, work, genPre, last, nReq, resp>>

NextId ==
  \/ \E a \in IdPairs : IdFirst(a)
  \/ \E b \in IdPairs : IdSecond(b)

SpecId == Init /\ [][NextId]_vars

----------------------------------------------------------------------------
(* Properties *)

\* a row's cell: its identifier, polygon and centroid
Cell(r) == [tile_id |-> r.tile_id, geom |-> r.geom, centroid |-> r.centroid]

Cells(rows) == {Cell(r) : r \in rows}

\* a generated tile as a cell
TileCell(t) == [tile_id |-> t.tile_id, geom |-> t.polygon, centroid |-> t.centroid]

NoDuplicateId(rows) ==
  \A r1, r2 \in rows : r1.tile_id = r2.tile_id => r1 = r2

ActiveBoundary == fetch_boundary_geojson(boundary)

\* C1: a generate request with tile_m <= 0 over an active boundary of
\* non-zero extent is answered with an InvalidParameter error: it is never
\* found inside the loops of the generator or the upserts (and so upserts
\* nothing).
C1_RejectsNonPositiveTile ==
  gen.pc # "idle" => gen.tile_m > 0

\* C2: after a successful generation for the active boundary, the persisted
\* cells are exactly the cells that generation emitted for it (the cells of
\* its grid that meet the boundary): nothing is left over from an earlier
\* boundary or tile size.
C2_StoreIsLastGrid ==
  (resp.op = "generate" /\ resp.status = 200 /\ last.mp = ActiveBoundary)
    => Cells(tiles) = {TileCell(t) : t \in last.out}

\* C3: identifier is injective on pairs of non-negative integers, and
\* columns 0, 25, 26 are lettered A, Z, AA (rows are 1-based).
C3_IdentifierInjective ==
  /\ (idq.phase = 2 /\ idq.a # idq.b) => idq.ida # idq.idb
  /\ (idq.phase >= 1 /\ idq.a = <<0, 0>>) => idq.ida = <<65, 49>>
  /\ (idq.phase >= 1 /\ idq.a = <<25, 0>>) => idq.ida = <<90, 49>>
  /\ (idq.phase >= 1 /\ idq.a = <<26, 0>>) => idq.ida = <<65, 65, 49>>

\* two different pairs, one in a two-letter column, the other in the
\* one-letter column of the same last letter, same row
C3_Witness ==
  idq.phase = 2 /\ idq.a = <<26, 10>> /\ idq.b = <<0, 10>>

\* the unit square of the lattice with lower corner <<i, j>> lies in a member
InMember(mp, i, j) ==
  \E r \in mp : r.minx <= i /\ i + 1 <= r.maxx /\ r.miny <= j /\ j + 1 <= r.maxy

\* the lattice points strictly inside the boundary (the union of its
\* members): the four unit squares around the point lie in the boundary
InteriorPoints(mp) ==
  LET b == Bounds(mp)
  IN {p \in (b[1]..b[3]) \X (b[2]..b[4]) :
        /\ InMember(mp, p[1] - 1, p[2] - 1) /\ InMember(mp, p[1], p[2] - 1)
        /\ InMember(mp, p[1] - 1, p[2]) /\ InMember(mp, p[1], p[2])}

\* the point lies in the closed square footprint
InFootprint(ring, p) ==
  LET b == RingBounds(ring)
  IN b[1] <= p[1] /\ p[1] <= b[3] /\ b[2] <= p[2] /\ p[2] <= b[4]

\* C4: when the walk of the generator has ended (tile_m > 0), every point
\* strictly inside the boundary lies in the footprint of an emitted cell.
C4_Coverage ==
  (gen.pc = "store" /\ gen.tile_m > 0)
    => \A p \in InteriorPoints(gen.mp) :
         \E i \in 1..Len(gen.out) : InFootprint(gen.out[i].polygon, p)

\* the walk over the two islands has ended, the cell between them left out
C4_Witness ==
  /\ gen.pc = "store" /\ gen.tile_m = 1
  /\ gen.mp = to_multipolygon(Strip) /\ Len(gen.out) = 5

\* the boundary is one square of side 2 * tile_m centred on the reference
SquareOfTwoTiles ==
  /\ gen.tile_m > 0
  /\ Cardinality(gen.mp) = 1
  /\ gen.x0 = -Metres(gen.tile_m) /\ gen.x1 = Metres(gen.tile_m)
  /\ gen.y0 = -Metres(gen.tile_m) /\ gen.y1 = Metres(gen.tile_m)

\* C5: for a square boundary of side 2 * tile_m centred on the reference
\* point the generator emits exactly the 4 cells A1, A2, B1, B2.
C5_FourCells ==
  (gen.pc = "store" /\ SquareOfTwoTiles)
    => /\ Len(gen.out) = 4
       /\ {gen.out[i].tile_id : i \in 1..Len(gen.out)}
            = {<<65, 49>>, <<65, 50>>, <<66, 49>>, <<66, 50>>}

\* the walk over the square at 60 degrees north has ended
C5_Witness ==
  gen.pc = "store" /\ SquareOfTwoTiles /\ gen.c0[2] = Lat60

\* the step is the commit of a generation
Commits == gen.pc = "store" /\ gen'.pc = "idle" /\ resp'.status = 200

\* C6: a generation that follows a successful one with the same boundary
\* and tile_m emits the same (identifier, polygon) pairs and leaves the
\* persisted cells as the first left them, no identifier twice.
C6_IdempotentRegeneration ==
  [][(Commits /\ last.n >= 1 /\ last.mp = gen.mp /\ last.tile_m = gen.tile_m)
       => /\ last'.out = last.out
          /\ Cells(tiles') = Cells(tiles)
          /\ NoDuplicateId(tiles')]_vars

\* the second of two generations in a row with the same input has committed
C6_Witness ==
  resp.op = "generate" /\ resp.status = 200 /\ last.n = 2 /\ Cardinality(tiles) > 1

\* the persisted cells once every upsert of the run is visible
Regenerated(rows, out) ==
  {c \in Cells(rows) : \A i \in 1..Len(out) : out[i].tile_id # c.tile_id}
    \cup {TileCell(out[i]) : i \in 1..Len(out)}

\* C7: a point-location query answered while a regeneration is upserting
\* ran against the whole cell set from before the regeneration or the whole
\* cell set after it.
C7_NoTornGrid ==
  (resp.op = "locate" /\ gen.pc = "store")
    => Cells(resp.aux) \in {Cells(genPre), Regenerated(genPre, gen.out)}

\* a query is answered when some, not all, upserts of a regeneration over
\* an earlier grid have run
C7_Witness ==
  /\ resp.op = "locate" /\ gen.pc = "store"
  /\ 1 < gen.idx /\ gen.idx <= Len(gen.out)
  /\ genPre # {}

\* C8: a generation request that fails leaves the committed cells as they
\* were before the request; with no boundary stored it fails with 400.
C8_FailureAborts ==
  /\ (resp.op = "generate" /\ resp.status # 200) => tiles = genPre
  /\ (resp.op = "generate" /\ boundary = <<>>) => resp.status = 400

\* a generation has failed after two upserts of its run
C8_Witness ==
  resp.op = "generate" /\ resp.status = 500 /\ resp.val = 2

\* C9: a query at the centroid of a persisted cell returns that cell's
\* identifier, and a query at a point in no persisted cell is not found.
C9_CentroidLocatesItsCell ==
  resp.op = "locate"
    => /\ \A c \in resp.aux :
            c.centroid = resp.arg => (resp.status = 200 /\ resp.val = c.tile_id)
       /\ (\A c \in resp.aux : ~ST_Contains(c.geom, resp.arg)) => resp.status = 404

\* C10: the centroid lookup returns the stored centroid for the identifier
\* of a persisted cell and not found (404) for any other identifier.
C10_CentroidLookup ==
  resp.op = "centroid"
    => IF \E r \in tiles : r.tile_id = resp.arg
       THEN resp.status = 200 /\ \E r \in tiles :
              r.tile_id = resp.arg /\ r.centroid = resp.val
       ELSE resp.status = 404

====
